---- MODULE Spec2Model ----
(***************************************************************************)
(* Model of the PDF form filler: fill_form_from_excel_by_col.py (the CLI   *)
(* driver, the mapper's helpers and the renderer fill_pdf) and             *)
(* streamlit_app.py (the interactive upload driver).                       *)
(*                                                                         *)
(* A Python str is a sequence of one-character strings, so that strip,     *)
(* lower, startswith, "in", zfill and the regular expressions are computed *)
(* character by character as the code computes them.  Field names and      *)
(* dictionary keys, which the code only compares for equality, are TLA+    *)
(* strings.                                                                *)
(***************************************************************************)
EXTENDS Integers, Sequences, FiniteSets, TLC

VARIABLES
    pc,           \* position of the running script
    driver,       \* "cli" (main), "upload" (streamlit_app) or "none"
    df,           \* the concatenated sheets: a sequence of rows (tuples of cells)
    i,            \* enumerate(..., 1) index of the row being processed
    row_values,   \* the field-value map of the current row
    files,        \* paths written so far
    editable,     \* annotations of the last editable document written
    flattened,    \* annotations of the last flattened document written
    errors,       \* CLI: rows whose "ERROR processing row" line was printed
    zipped,       \* upload: names packed into final_output.zip
    template,     \* annotations of the template document
    values_in,    \* fill_pdf called on its own: the row_values argument
    letter,       \* col_letter_to_index: the argument
    idx_result,   \* col_letter_to_index: the outcome
    text,         \* parse_date_flexible: the argument
    date_result,  \* parse_date_flexible: the outcome
    dateutil      \* what dateutil's parser answers for each text handed to it

vars == <<pc, driver, df, i, row_values, files, editable, flattened, errors,
          zipped, template, values_in, letter, idx_result, text, date_result,
          dateutil>>

(***************************************************************************)
(* Bounds of the model.                                                    *)
(***************************************************************************)
MaxLetterLen == 3
MaxTokens == 4
MaxRows == 10
MaxFail == 1
MaxAnnots == 2

(***************************************************************************)
(* Python str operations.                                                  *)
(***************************************************************************)
UpperAlphabet == <<"A","B","C","D","E","F","G","H","I","J","K","L","M",
                   "N","O","P","Q","R","S","T","U","V","W","X","Y","Z">>
LowerAlphabet == <<"a","b","c","d","e","f","g","h","i","j","k","l","m",
                   "n","o","p","q","r","s","t","u","v","w","x","y","z">>
Digits == <<"0","1","2","3","4","5","6","7","8","9">>

IsUpperAZ(ch) == \E k \in 1..26 : UpperAlphabet[k] = ch
IsLowerAZ(ch) == \E k \in 1..26 : LowerAlphabet[k] = ch
IsDigit(ch) == \E k \in 1..10 : Digits[k] = ch
IsSpace(ch) == ch = " "
\* \w of the re module
IsWordChar(ch) == IsUpperAZ(ch) \/ IsLowerAZ(ch) \/ IsDigit(ch) \/ ch = "_"

\* ord(ch) - ord('A') + 1 for an upper-case letter
LetterOrd(ch) == CHOOSE k \in 1..26 : UpperAlphabet[k] = ch
DigitVal(ch) == (CHOOSE k \in 1..10 : Digits[k] = ch) - 1

UpperCh(ch) == IF IsLowerAZ(ch)
               THEN UpperAlphabet[CHOOSE k \in 1..26 : LowerAlphabet[k] = ch]
               ELSE ch
LowerCh(ch) == IF IsUpperAZ(ch)
               THEN LowerAlphabet[CHOOSE k \in 1..26 : UpperAlphabet[k] = ch]
               ELSE ch
upper(s) == [k \in 1..Len(s) |-> UpperCh(s[k])]
lower(s) == [k \in 1..Len(s) |-> LowerCh(s[k])]

RECURSIVE lstrip(_)
lstrip(s) == IF s # <<>> /\ IsSpace(Head(s)) THEN lstrip(Tail(s)) ELSE s
RECURSIVE rstrip(_)
rstrip(s) == IF s # <<>> /\ IsSpace(s[Len(s)])
             THEN rstrip(SubSeq(s, 1, Len(s) - 1)) ELSE s
strip(s) == rstrip(lstrip(s))

startswith(s, p) == Len(s) >= Len(p) /\ SubSeq(s, 1, Len(p)) = p
\* p in s
contains(s, p) == \E k \in 1..(Len(s) - Len(p) + 1) : SubSeq(s, k, k + Len(p) - 1) = p

RECURSIVE Zeros(_)
Zeros(n) == IF n <= 0 THEN <<>> ELSE <<"0">> \o Zeros(n - 1)
\* s.zfill(w) of a string without sign
zfill(s, w) == Zeros(w - Len(s)) \o s

\* str(n) of a non-negative int
RECURSIVE DecStr(_)
DecStr(n) == IF n < 10 THEN <<Digits[n + 1]>>
             ELSE DecStr(n \div 10) \o <<Digits[(n % 10) + 1]>>
\* int(s) of a string of digits
RECURSIVE DecVal(_)
DecVal(s) == IF s = <<>> THEN 0
             ELSE 10 * DecVal(SubSeq(s, 1, Len(s) - 1)) + DigitVal(s[Len(s)])

\* every sequence over S of length at most n
RECURSIVE SeqsUpTo(_, _)
SeqsUpTo(S, n) == IF n = 0 THEN {<<>>}
                  ELSE LET R == SeqsUpTo(S, n - 1)
                       IN  R \cup {Append(r, x) : r \in {q \in R : Len(q) = n - 1}, x \in S}

(***************************************************************************)
(* col_letter_to_index                                                     *)
(***************************************************************************)
RECURSIVE LetterAcc(_, _)
\* the for loop: the accumulator idx over the remaining characters; -1 marks
\* the raise ValueError
LetterAcc(s, idx) ==
    IF s = <<>> THEN idx
    ELSE IF ~IsUpperAZ(Head(s)) THEN -1
    ELSE LetterAcc(Tail(s), idx * 26 + LetterOrd(Head(s)))

col_letter_to_index(l) ==
    LET acc == LetterAcc(upper(strip(l)), 0)
    IN  IF acc = -1 THEN [err |-> TRUE, idx |-> 0] ELSE [err |-> FALSE, idx |-> acc - 1]

(***************************************************************************)
(* Cells and norm.  A cell read by pandas with dtype=str is a str or, for  *)
(* a blank cell, the float NaN; None is what cell() answers for a column   *)
(* the row does not have.                                                  *)
(***************************************************************************)
None == [k |-> "none"]
NaN == [k |-> "nan"]
Str(s) == [k |-> "str", s |-> s]

\* str(v)
str(v) == IF v.k = "nan" THEN <<"n","a","n">> ELSE v.s

norm(v) == IF v.k = "none" THEN <<>> ELSE strip(str(v))

(***************************************************************************)
(* parse_date_flexible                                                     *)
(***************************************************************************)
OrdinalSuffixes == {<<"s","t">>, <<"n","d">>, <<"r","d">>, <<"t","h">>}

\* (?<=\d)(st|nd|rd|th)\b matches at position p, ignoring case
OrdinalAt(s, p) ==
    /\ p > 1
    /\ p + 1 <= Len(s)
    /\ IsDigit(s[p - 1])
    /\ lower(SubSeq(s, p, p + 1)) \in OrdinalSuffixes
    /\ (p + 2 > Len(s) \/ ~IsWordChar(s[p + 2]))

RECURSIVE SubOrdinals(_, _)
\* re.sub(..., '', t) from position p on
SubOrdinals(s, p) ==
    IF p > Len(s) THEN <<>>
    ELSE IF OrdinalAt(s, p) THEN SubOrdinals(s, p + 2)
    ELSE <<s[p]>> \o SubOrdinals(s, p + 1)

\* t.replace('.', '/').replace('-', '/')
ReplaceSeparators(s) ==
    [k \in 1..Len(s) |-> IF s[k] = "." \/ s[k] = "-" THEN "/" ELSE s[k]]

\* the text handed to dateparser.parse (empty: the early return)
DateText(txt) ==
    LET t == strip(txt)
    IN  IF t = <<>> THEN <<>> ELSE ReplaceSeparators(SubOrdinals(t, 1))

RECURSIVE LeadingDigits(_, _)
\* how many of the first max characters of s are digits in a row
LeadingDigits(s, max) ==
    IF max = 0 \/ s = <<>> \/ ~IsDigit(Head(s)) THEN 0
    ELSE 1 + LeadingDigits(Tail(s), max - 1)

RECURSIVE DigitRuns(_)
\* re.findall(r'\d{1,4}', s)
DigitRuns(s) ==
    IF s = <<>> THEN <<>>
    ELSE IF ~IsDigit(Head(s)) THEN DigitRuns(Tail(s))
    ELSE LET n == LeadingDigits(s, 4)
         IN  <<SubSeq(s, 1, n)>> \o DigitRuns(SubSeq(s, n + 1, Len(s)))

EmptyTriple == [day |-> <<>>, month |-> <<>>, year |-> <<>>]

\* dateparser.parse(t, dayfirst=True, fuzzy=True) is library code: it raises
\* or returns a date, and which of the two is the environment's answer
DateutilRaise == [ok |-> FALSE, day |-> 0, month |-> 0, year |-> 0]
DateutilOutcomes ==
    { DateutilRaise,
      [ok |-> TRUE, day |-> 3, month |-> 5, year |-> 1990] }

\* the fallback with the 2-digit-year pivot at >= 30 instead of > 30
DateFallback_pivot(t) ==
    LET parts == DigitRuns(t)
    IN  IF Len(parts) >= 3
        THEN LET year == parts[3]
                 y == DecVal(year)
             IN  [day |-> zfill(parts[1], 2),
                  month |-> zfill(parts[2], 2),
                  year |-> IF Len(year) = 2
                           THEN (IF y >= 30 THEN DecStr(1900 + y) ELSE DecStr(2000 + y))
                           ELSE year]
        ELSE EmptyTriple

\* lines 115-126: the digit-run fallback
DateFallback(t) ==
    LET parts == DigitRuns(t)
    IN  IF Len(parts) >= 3
        THEN LET year == parts[3]
                 y == DecVal(year)
             IN  [day |-> zfill(parts[1], 2),
                  month |-> zfill(parts[2], 2),
                  year |-> IF Len(year) = 2
                           THEN (IF y > 30 THEN DecStr(1900 + y) ELSE DecStr(2000 + y))
                           ELSE year]
        ELSE EmptyTriple

\* orc: the answers of dateutil, a function of the text handed to it
parse_date_flexible(txt, orc) ==
    LET t == DateText(txt)
    IN  IF t = <<>> THEN EmptyTriple
        ELSE IF orc[t].ok
        THEN [day |-> zfill(DecStr(orc[t].day), 2),
              month |-> zfill(DecStr(orc[t].month), 2),
              year |-> DecStr(orc[t].year)]
        ELSE DateFallback(t)

(***************************************************************************)
(* Configuration: COL_MAP, PDF_FIELDS, CHECKBOX_GROUPS.                    *)
(***************************************************************************)
\* COL_MAP in dict order: <<column letter, key>>
COL_MAP ==
    << <<<<"A","A">>, "declaration">>,
       <<<<"E">>, "day_of_birth">>,
       <<<<"Z">>, "disabled">>,
       <<<<"J">>, "employer_address">>,
       <<<<"D">>, "gender">>,
       <<<<"R">>, "first_child_dob">>,
       <<<<"Q">>, "first_child_name">>,
       <<<<"S">>, "first_child_school">>,
       <<<<"C">>, "name_cell">>,
       <<<<"L">>, "ghana_card">>,
       <<<<"M">>, "marital">>,
       <<<<"F">>, "mothers_maiden">>,
       <<<<"I">>, "name_of_employer">>,
       <<<<"N">>, "name_of_spouse">>,
       <<<<"A","C">>, "names_and_dates_of_aged_dependants">>,
       <<<<"P">>, "number_of_chilfren">>,
       <<<<"K">>, "phone_number">>,
       <<<<"U">>, "second_child_dob">>,
       <<<<"T">>, "second_child_name">>,
       <<<<"V">>, "second_child_school">>,
       <<<<"O">>, "spouse_dob">>,
       <<<<"G">>, "social_sec">>,
       <<<<"H">>, "staff_id">>,
       <<<<"X">>, "third_child_date">>,
       <<<<"W">>, "third_child_name">>,
       <<<<"Y">>, "third_child_school">>
    >>

ColKeys == {COL_MAP[n][2] : n \in 1..Len(COL_MAP)}
LetterOf(key) == COL_MAP[CHOOSE n \in 1..Len(COL_MAP) : COL_MAP[n][2] = key][1]

PDF_FIELDS ==
    << "Text1", "change", "day_of_birth", "disabled", "employer_address", "female",
       "first_child_dob", "first_child_name", "first_child_school", "first_name",
       "ghana_card", "male", "married", "month_of_birth", "mothers_maiden",
       "name_of_employer", "name_of_spouse", "names_and_dates_of_aged_dependants",
       "no_change", "not_disabled", "number_of_chilfren", "phone_number",
       "second_child_dob", "second_child_name", "second_child_school", "single",
       "social_sec", "spouse_day_of_birth", "spouse_ghana_card",
       "spouse_month_of_birth", "spouse_social_sec", "spouse_staff_id",
       "spouse_year_of_birth", "staff_id", "surname", "third_child_date",
       "third_child_name", "third_child_school", "year", "year_of_birth" >>

CHECKBOX_GROUPS ==
    [gender |-> <<"male", "female">>,
     marital |-> <<"married", "single">>,
     disability |-> <<"disabled", "not_disabled">>]

\* sum(CHECKBOX_GROUPS.values(), ())
CheckboxFields ==
    {CHECKBOX_GROUPS[g][n] : g \in DOMAIN CHECKBOX_GROUPS, n \in 1..2}

(***************************************************************************)
(* dict operations.                                                        *)
(***************************************************************************)
EmptyDict == <<>>
Put(m, key, v) == [x \in (DOMAIN m) \cup {key} |-> IF x = key THEN v ELSE m[x]]
\* m.get(key, "")
Get(m, key) == IF key \in DOMAIN m THEN m[key] ELSE <<>>
PutAll(m, n) == [x \in (DOMAIN m) \cup (DOMAIN n) |-> IF x \in DOMAIN n THEN n[x] ELSE m[x]]

(***************************************************************************)
(* Row-to-field mapping of the CLI driver (main, lines 199-317).           *)
(***************************************************************************)
\* the closure cell(letter) of main: row_series[idx] with Python's negative
\* indexing, None on a column the row lacks or on any exception
cell(row, l) ==
    LET r == col_letter_to_index(l)
    IN  IF r.err THEN None
        ELSE IF r.idx >= Len(row) THEN None
        ELSE IF r.idx >= 0 THEN row[r.idx + 1]
        ELSE IF Len(row) + r.idx >= 0 THEN row[Len(row) + r.idx + 1]
        ELSE None

\* lines 207-212
cli_populate(row) == [key \in ColKeys |-> norm(cell(row, LetterOf(key)))]

RECURSIVE FirstDigits(_, _)
\* re.search of n digits in a row: the match, or <<>> for no match
FirstDigits(s, n) ==
    IF Len(s) < n THEN <<>>
    ELSE IF \A k \in 1..n : IsDigit(s[k]) THEN SubSeq(s, 1, n)
    ELSE FirstDigits(Tail(s), n)

\* lines 215-227
year_part(timestamp) ==
    IF timestamp = <<>> THEN <<>>
    ELSE LET m4 == FirstDigits(timestamp, 4)
             m2 == FirstDigits(timestamp, 2)
         IN  IF m4 # <<>> THEN m4
             ELSE IF m2 # <<>> THEN <<"2","0">> \o m2
             ELSE <<>>

RECURSIVE SplitWS(_)
\* s.split(): the whitespace-separated tokens of s
SplitWS(s) ==
    LET t == lstrip(s)
    IN  IF t = <<>> THEN <<>>
        ELSE LET n == CHOOSE n \in 1..Len(t) :
                          /\ \A k \in 1..n : ~IsSpace(t[k])
                          /\ (n = Len(t) \/ IsSpace(t[n + 1]))
             IN  <<SubSeq(t, 1, n)>> \o SplitWS(SubSeq(t, n + 1, Len(t)))

RECURSIVE JoinSpace(_)
\* " ".join(parts)
JoinSpace(parts) ==
    IF parts = <<>> THEN <<>>
    ELSE IF Len(parts) = 1 THEN parts[1]
    ELSE parts[1] \o <<" ">> \o JoinSpace(Tail(parts))

\* surname and first_name: lines 231-240 (re.split(r'\s+', name_cell.strip())
\* of a non-empty stripped string) and streamlit_app lines 50-53
split_name(name_cell) ==
    LET parts == SplitWS(name_cell)
    IN  [surname |-> IF Len(parts) > 0 THEN parts[1] ELSE <<>>,
         first_name |-> IF Len(parts) > 1 THEN JoinSpace(Tail(parts)) ELSE <<>>]

Yes == <<"Y","e","s">>

\* lines 249-251
gender_boxes(gender_raw) ==
    [male |-> IF startswith(lower(gender_raw), <<"m">>) THEN Yes ELSE <<>>,
     female |-> IF startswith(lower(gender_raw), <<"f">>) THEN Yes ELSE <<>>]

\* lines 253-255
marital_boxes(marital_raw) ==
    [married |-> IF contains(lower(marital_raw), <<"m","a","r","r","i","e","d">>)
                 THEN Yes ELSE <<>>,
     single |-> IF contains(lower(marital_raw), <<"s","i","n","g","l","e">>)
                THEN Yes ELSE <<>>]

\* lines 257-267
disability_boxes(dis_raw) ==
    IF dis_raw # <<>>
    THEN IF startswith(lower(dis_raw), <<"y">>)
         THEN [disabled |-> Yes, not_disabled |-> <<>>]
         ELSE [disabled |-> <<>>, not_disabled |-> Yes]
    ELSE [disabled |-> <<>>, not_disabled |-> <<>>]

RECURSIVE lstrip_slash(_)
lstrip_slash(s) == IF s # <<>> /\ Head(s) = "/" THEN lstrip_slash(Tail(s)) ELSE s
RECURSIVE rstrip_slash(_)
rstrip_slash(s) == IF s # <<>> /\ s[Len(s)] = "/"
                   THEN rstrip_slash(SubSeq(s, 1, Len(s) - 1)) ELSE s

\* (f"{d}/{m}/{y}" if d and m and y else "").strip("/")
child_date(t) ==
    IF t.day # <<>> /\ t.month # <<>> /\ t.year # <<>>
    THEN rstrip_slash(lstrip_slash(t.day \o <<"/">> \o t.month \o <<"/">> \o t.year))
    ELSE <<>>

\* f"unknown_{i}"
unknown_id(n) == <<"u","n","k","n","o","w","n","_">> \o DecStr(n)

\* lines 243-246
cli_staff_id(rv, n) ==
    LET staff_id == norm(Str(Get(rv, "staff_id")))
    IN  IF staff_id = <<>> THEN unknown_id(n) ELSE staff_id

\* datetime.today().strftime("%d/%m/%Y") on the day of the run
TodayStr == <<"0","1","/","1","1","/","2","0","2","6">>
FixedYear == <<"2","0","2","6">>

\* lines 214-317: the derived fields over the populated row_values rv of
\* row number n; orc answers for dateutil
cli_derive(rv, row, n, orc) ==
    LET name == split_name(Get(rv, "name_cell"))
        g == gender_boxes(norm(Str(Get(rv, "gender"))))
        m == marital_boxes(norm(Str(Get(rv, "marital"))))
        d == disability_boxes(norm(Str(Get(rv, "disabled"))))
        dob == parse_date_flexible(Get(rv, "day_of_birth"), orc)
        sp == parse_date_flexible(Get(rv, "spouse_dob"), orc)
        fc == parse_date_flexible(Get(rv, "first_child_dob"), orc)
        sc == parse_date_flexible(Get(rv, "second_child_dob"), orc)
        tc == parse_date_flexible(Get(rv, "third_child_date"), orc)
        derived ==
            [year |-> year_part(norm(cell(row, <<"B">>))),
             surname |-> name.surname,
             first_name |-> name.first_name,
             staff_id |-> cli_staff_id(rv, n),
             male |-> g.male,
             female |-> g.female,
             married |-> m.married,
             single |-> m.single,
             disabled |-> d.disabled,
             not_disabled |-> d.not_disabled,
             day_of_birth |-> dob.day,
             month_of_birth |-> dob.month,
             year_of_birth |-> dob.year,
             spouse_day_of_birth |-> sp.day,
             spouse_month_of_birth |-> sp.month,
             spouse_year_of_birth |-> sp.year,
             first_child_dob |-> child_date(fc),
             second_child_dob |-> child_date(sc),
             third_child_date |-> child_date(tc),
             change |-> Yes,
             phone_number |-> norm(Str(Get(rv, "phone_number"))),
             ghana_card |-> norm(Str(Get(rv, "ghana_card"))),
             social_sec |-> norm(Str(Get(rv, "social_sec")))]
        \* line 316 overwrites the year of line 228
        final == [year |-> FixedYear, declaration_date |-> TodayStr]
    IN  PutAll(PutAll(rv, derived), final)

(***************************************************************************)
(* Row-to-field mapping of the upload driver (streamlit_app, lines 38-58). *)
(***************************************************************************)
RECURSIVE upload_col_acc(_, _)
\* lines 43-45: the conversion without the A-Z check
upload_col_acc(s, idx) ==
    IF s = <<>> THEN idx
    ELSE upload_col_acc(Tail(s), idx * 26 + LetterOrd(Head(s)))

upload_col_idx(l) == upload_col_acc(upper(strip(l)), 0) - 1

\* line 47 reading the column after the one asked for
upload_cell_off(row, l) ==
    LET col_idx == upload_col_idx(l) + 1
    IN  IF col_idx < Len(row) THEN norm(row[col_idx + 1]) ELSE <<>>

\* line 47
upload_cell(row, l) ==
    LET col_idx == upload_col_idx(l)
    IN  IF col_idx < Len(row) THEN norm(row[col_idx + 1]) ELSE <<>>

\* lines 38-47
upload_populate(row) == [key \in ColKeys |-> upload_cell(row, LetterOf(key))]

\* lines 49-58
upload_derive(rv, orc) ==
    LET name == split_name(Get(rv, "name_cell"))
        dob == parse_date_flexible(Get(rv, "day_of_birth"), orc)
        derived ==
            [surname |-> name.surname,
             first_name |-> name.first_name,
             day_of_birth |-> dob.day,
             month_of_birth |-> dob.month,
             year_of_birth |-> dob.year,
             change |-> Yes,
             year |-> FixedYear,
             declaration_date |-> TodayStr]
    IN  PutAll(rv, derived)

(***************************************************************************)
(* fill_pdf.  An annotation is a record of the entries the code reads or   *)
(* writes: Subtype, T (the field name, "" when the annotation has none),   *)
(* V (None or a str), AS, AP ("none" after annot.AP = None) and DA.        *)
(***************************************************************************)
AutosizeDA == "/Helv 11 Tf 0 g"

\* line 147: value and lower.startswith('y') or lower.startswith('m') or
\* lower.startswith('mar')
checkbox_on(value) ==
    \/ value # <<>> /\ startswith(lower(value), <<"y">>)
    \/ startswith(lower(value), <<"m">>)
    \/ startswith(lower(value), <<"m","a","r">>)

\* the loop body without the else branch that clears an empty field
fill_annot_keep(a, rv) ==
    IF a.Subtype = "/Widget" /\ a.T # ""
    THEN IF a.T = "change" THEN [a EXCEPT !.AS = "/Yes"]
         ELSE LET value == norm(Str(Get(rv, a.T)))
              IN  IF a.T \in CheckboxFields
                  THEN [a EXCEPT !.AS = IF checkbox_on(value) THEN "/Yes" ELSE "/Off"]
                  ELSE IF value # <<>>
                  THEN [a EXCEPT !.V = Str(value), !.DA = AutosizeDA, !.AP = "none"]
                  ELSE a
    ELSE a

\* lines 136-165: the loop body on one annotation
fill_annot(a, rv) ==
    IF a.Subtype = "/Widget" /\ a.T # ""
    THEN IF a.T = "change" THEN [a EXCEPT !.AS = "/Yes"]
         ELSE LET value == norm(Str(Get(rv, a.T)))
              IN  IF a.T \in CheckboxFields
                  THEN [a EXCEPT !.AS = IF checkbox_on(value) THEN "/Yes" ELSE "/Off"]
                  ELSE IF value # <<>>
                  THEN [a EXCEPT !.V = Str(value), !.DA = AutosizeDA, !.AP = "none"]
                  ELSE [a EXCEPT !.V = Str(<<>>), !.AP = "none"]
    ELSE a

\* lines 131-165: the annotations of the filled document
fill_annots(tmpl, rv) == [k \in 1..Len(tmpl) |-> fill_annot(tmpl[k], rv)]

\* lines 171-173: page.Annots = []
flatten(annots) == <<>>

NoDoc == [written |-> FALSE]
Doc(n, annots) == [written |-> TRUE, row |-> n, annots |-> annots]

\* fill_pdf ends normally, or PdfReader raises (nothing written), or the
\* second PdfWriter raises (the editable copy is written, the flattened is not)
RenderOutcomes == {"ok", "raise_read", "raise_flat"}

(***************************************************************************)
(* Output naming.                                                          *)
(***************************************************************************)
DotPdf == <<".","p","d","f">>
FlatPdf == <<"_","f","l","a","t",".","p","d","f">>
OUT_EDITABLE == "output_forms/editable"
OUT_FLATTENED == "output_forms/flattened"
flat_dir == "output_flat"
TempDummy == <<"t","e","m","p","_","d","u","m","m","y",".","p","d","f">>

\* the identifier without the zero padding
file_stem_nopad(n, total) == DecStr(n)

\* padding = len(str(total)); f"{i:0{padding}d}"
file_stem(n, total) == zfill(DecStr(n), Len(DecStr(total)))

File(dir, name, kind) == [dir |-> dir, name |-> name, kind |-> kind]

(***************************************************************************)
(* Specification SpecLocate: col_letter_to_index on every letter string of *)
(* at most MaxLetterLen characters.                                        *)
(***************************************************************************)
LetterChars == {"A", "Z", "a", "b", " ", "1"}

DriverIdle ==
    /\ driver = "none"
    /\ df = <<>>
    /\ i = 0
    /\ row_values = <<>>
    /\ files = {}
    /\ editable = <<>>
    /\ flattened = <<>>
    /\ errors = {}
    /\ zipped = {}
    /\ template = <<>>
    /\ values_in = <<>>

LocateIdle ==
    /\ letter = <<>>
    /\ idx_result = [err |-> FALSE, idx |-> 0]

DateIdle ==
    /\ text = <<>>
    /\ date_result = EmptyTriple
    /\ dateutil = <<>>

driverVars == <<driver, df, i, row_values, files, editable, flattened, errors,
                zipped, template, values_in>>

InitLocate ==
    /\ pc = "locate"
    /\ letter \in SeqsUpTo(LetterChars, MaxLetterLen)
    /\ idx_result = [err |-> FALSE, idx |-> 0]
    /\ DriverIdle
    /\ DateIdle

Locate ==
    /\ pc = "locate"
    /\ idx_result' = col_letter_to_index(letter)
    /\ pc' = "located"
    /\ UNCHANGED <<driverVars, letter, text, date_result, dateutil>>

NextLocate == Locate

SpecLocate == InitLocate /\ [][NextLocate]_vars

(***************************************************************************)
(* Specification SpecDate: parse_date_flexible on every text made of at    *)
(* most MaxTokens tokens, with either answer of dateutil.                  *)
(***************************************************************************)
\* digit runs alone or with the separator that follows them, and an ordinal suffix
DateTokens ==
    { <<"5">>, <<"5",".">>, <<"3","0">>, <<"3","1"," ">>, <<"1","9","9","0",".">>,
      <<"t","h">> }

RECURSIVE Concat(_)
Concat(ss) == IF ss = <<>> THEN <<>> ELSE Head(ss) \o Concat(Tail(ss))

DateTexts == {Concat(ts) : ts \in SeqsUpTo(DateTokens, MaxTokens)}

InitDate ==
    /\ pc = "parse"
    /\ text \in DateTexts
    /\ dateutil \in [{DateText(text)} -> DateutilOutcomes]
    /\ date_result = EmptyTriple
    /\ DriverIdle
    /\ LocateIdle

ParseDate ==
    /\ pc = "parse"
    /\ date_result' = parse_date_flexible(text, dateutil)
    /\ pc' = "parsed"
    /\ UNCHANGED <<driverVars, letter, idx_result, text, dateutil>>

NextDate == ParseDate

SpecDate == InitDate /\ [][NextDate]_vars

(***************************************************************************)
(* Claims about col_letter_to_index (SpecLocate).                          *)
(***************************************************************************)
RECURSIVE Bijective26(_)
\* the value of a string of letters as a base-26 numeral with 'A'=1..'Z'=26
Bijective26(u) ==
    IF u = <<>> THEN 0
    ELSE 26 * Bijective26(SubSeq(u, 1, Len(u) - 1)) + LetterOrd(u[Len(u)])

\* C5: col_letter_to_index either fails, exactly when some character of the
\* (stripped, upper-cased) input is outside A-Z, or returns a non-negative
\* integer equal to the bijective base-26 value of the letters minus 1; no
\* accepted input, the empty or whitespace-only string included, yields a
\* negative index.
C5_LocateContract ==
    pc = "located" =>
        LET u == upper(strip(letter))
        IN  /\ idx_result.err <=> (\E k \in 1..Len(u) : ~IsUpperAZ(u[k]))
            /\ ~idx_result.err =>
                   /\ idx_result.idx >= 0
                   /\ idx_result.idx = Bijective26(u) - 1

(***************************************************************************)
(* Claims about parse_date_flexible (SpecDate).                            *)
(***************************************************************************)
FallbackTaken ==
    /\ pc = "parsed"
    /\ DateText(text) # <<>>
    /\ ~dateutil[DateText(text)].ok

PadTwo(run) == IF Len(run) = 1 THEN <<"0">> \o run ELSE run

PivotYear(run) ==
    IF Len(run) = 2
    THEN (IF DecVal(run) > 30 THEN DecStr(1900 + DecVal(run)) ELSE DecStr(2000 + DecVal(run)))
    ELSE run

FallbackShape ==
    LET parts == DigitRuns(DateText(text))
        r == date_result
    IN  /\ Len(parts) < 3 => r = EmptyTriple
        /\ Len(parts) >= 3 =>
               /\ r.day = PadTwo(parts[1])
               /\ r.month = PadTwo(parts[2])
               /\ r.year = PivotYear(parts[3])
        /\ \/ r = EmptyTriple
           \/ r.day # <<>> /\ r.month # <<>> /\ r.year # <<>>

\* C10 (as amended): when the general-purpose parse fails, fewer than 3 digit
\* runs give the empty triple; at least 3 runs give the first three as (day,
\* month, year) with day and month left-padded with zeros to at least 2 digits
\* (a 1-digit run gets a leading zero, a run of 2 to 4 digits is returned
\* unchanged), a 2-digit year run of value y becoming 1900+y when y > 30 and
\* 2000+y otherwise; the result is all-empty or has three non-empty components.
C10_FallbackResult == FallbackTaken => FallbackShape

\* C10 (as stated): the same, with day and month each a 2-digit string
C10_DayMonthTwoDigits ==
    FallbackTaken =>
        /\ FallbackShape
        /\ Len(DigitRuns(DateText(text))) >= 3 =>
               Len(date_result.day) = 2 /\ Len(date_result.month) = 2

\* a text whose fallback pads a 1-digit day and pivots the year run "31" to 1931
C10_Witness ==
    /\ FallbackTaken
    /\ Len(DigitRuns(DateText(text))) >= 3
    /\ Len(DigitRuns(DateText(text))[1]) = 1
    /\ DigitRuns(DateText(text))[3] = <<"3","1">>
    /\ date_result.day = <<"0","5">>
    /\ date_result.year = <<"1","9","3","1">>

(***************************************************************************)
(* Specification Spec: the two drivers over a loaded spreadsheet.          *)
(***************************************************************************)
MaxWidth == 29
\* sheets of 2 columns (A and B only) up to sheets reaching column AC
WidthSamples == {2, 4, 13, 26, MaxWidth}

sMale == <<"M","a","l","e">>
sFemale == <<"f","e","m","a","l","e">>
sMarried == <<"M","a","r","r","i","e","d">>
sSingle == <<"s","i","n","g","l","e">>
sWasSingle == <<"M","a","r","r","i","e","d"," ","(","w","a","s"," ","s","i","n","g","l","e",")">>
sYesUpper == <<"Y","e","s">>
sYesLower == <<"y","e","s">>
sNo == <<"N","o">>
sStaff == <<" ","S","1"," ">>
sDate == <<"5",".","5",".","3","1">>
sName == <<"S","m","i","t","h"," "," ","J","o","h","n"," ","P","a","u","l">>
sBlank == <<" "," ">>
sX == <<"x">>

CellSamples ==
    { NaN, Str(sBlank), Str(sMale), Str(sFemale), Str(sMarried), Str(sSingle),
      Str(sWasSingle), Str(sYesUpper), Str(sYesLower), Str(sNo), Str(sStaff),
      Str(sDate), Str(sName) }

\* 1-based positions of the columns C, D, E, H, M and Z
SpecialCols == {3, 4, 5, 8, 13, 26}

BaseRow(w, b) == [k \in 1..w |-> b]

\* the uniform rows of width w, and the rows that differ from one in one cell
RowsOfWidth(w) ==
    {BaseRow(w, b) : b \in {NaN, Str(sX)}} \cup
    { [BaseRow(w, b) EXCEPT ![c] = v] :
        b \in {NaN, Str(sX)}, c \in {c \in SpecialCols : c <= w}, v \in CellSamples }

RichRows == UNION {RowsOfWidth(w) : w \in WidthSamples}

FullRow ==
    [k \in 1..MaxWidth |->
        CASE k = 3 -> Str(sName)
          [] k = 4 -> Str(sMale)
          [] k = 5 -> Str(sDate)
          [] k = 8 -> Str(sStaff)
          [] k = 13 -> Str(sMarried)
          [] k = 26 -> Str(sNo)
          [] OTHER -> Str(sX)]

BatchRows == {BaseRow(2, Str(sX)), BaseRow(MaxWidth, NaN), FullRow}

Frames ==
    {<<r>> : r \in RichRows}
    \cup {[k \in 1..n |-> r] : n \in 0..MaxRows, r \in BatchRows}

DateKeys == {"day_of_birth", "spouse_dob", "first_child_dob", "second_child_dob",
             "third_child_date"}

\* the texts the rows of frame f hand to dateutil
DateTextsOf(f) ==
    ( {DateText(cli_populate(f[n])[key]) : n \in 1..Len(f), key \in DateKeys}
      \cup {DateText(upload_populate(f[n])[key]) : n \in 1..Len(f), key \in DateKeys} )
    \ {<<>>}

\* the template: one widget for each name of PDF_FIELDS
FormTemplate ==
    [k \in 1..Len(PDF_FIELDS) |->
        [Subtype |-> "/Widget", T |-> PDF_FIELDS[k], V |-> None, AS |-> "/Off",
         AP |-> "ap", DA |-> ""]]

Init ==
    /\ pc = "row"
    /\ driver \in {"cli", "upload"}
    /\ df \in Frames
    /\ dateutil \in [DateTextsOf(df) -> DateutilOutcomes]
    /\ i = 0
    /\ row_values = EmptyDict
    /\ files = {}
    /\ editable = NoDoc
    /\ flattened = NoDoc
    /\ errors = {}
    /\ zipped = {}
    /\ template = FormTemplate
    /\ values_in = EmptyDict
    /\ LocateIdle
    /\ text = <<>>
    /\ date_result = EmptyTriple

inputVars == <<driver, df, dateutil, template, values_in, letter, idx_result, text,
               date_result>>

\* main, lines 199-212: the next row is taken and its mapped cells stored
CliPopulate ==
    /\ driver = "cli"
    /\ pc = "row"
    /\ i < Len(df)
    /\ i' = i + 1
    /\ row_values' = cli_populate(df[i + 1])
    /\ pc' = "derive"
    /\ UNCHANGED <<inputVars, files, editable, flattened, errors, zipped>>

\* main, lines 214-324: the derived fields, the file names and fill_pdf inside
\* try/except
CliRender ==
    /\ driver = "cli"
    /\ pc = "derive"
    /\ LET rv == cli_derive(row_values, df[i], i, dateutil)
           new_file_name == file_stem(i, Len(df))
           out_edit == File(OUT_EDITABLE, new_file_name \o DotPdf, "editable")
           out_flat == File(OUT_FLATTENED, new_file_name \o FlatPdf, "flattened")
           filled == fill_annots(template, rv)
       IN  /\ row_values' = rv
           /\ \E outcome \in RenderOutcomes :
                /\ outcome # "ok" => Cardinality(errors) < MaxFail
                /\ files' = CASE outcome = "ok" -> files \cup {out_edit, out_flat}
                              [] outcome = "raise_flat" -> files \cup {out_edit}
                              [] OTHER -> files
                /\ editable' = IF outcome = "raise_read" THEN editable ELSE Doc(i, filled)
                /\ flattened' = IF outcome = "ok" THEN Doc(i, flatten(filled)) ELSE flattened
                /\ errors' = IF outcome = "ok" THEN errors ELSE errors \cup {i}
    /\ pc' = "row"
    /\ UNCHANGED <<inputVars, i, zipped>>

\* main: the for loop is exhausted
CliFinish ==
    /\ driver = "cli"
    /\ pc = "row"
    /\ i = Len(df)
    /\ pc' = "done"
    /\ UNCHANGED <<inputVars, i, row_values, files, editable, flattened, errors, zipped>>

\* streamlit_app, lines 37-47
UploadPopulate ==
    /\ driver = "upload"
    /\ pc = "row"
    /\ i < Len(df)
    /\ i' = i + 1
    /\ row_values' = upload_populate(df[i + 1])
    /\ pc' = "derive"
    /\ UNCHANGED <<inputVars, files, editable, flattened, errors, zipped>>

\* streamlit_app, lines 49-69 and 88-89: an exception of fill_pdf leaves the for
\* loop for the except clause of the enclosing try
UploadRender ==
    /\ driver = "upload"
    /\ pc = "derive"
    /\ LET rv == upload_derive(row_values, dateutil)
           fname == file_stem(i, Len(df)) \o DotPdf
           out_edit == File(".", TempDummy, "editable")
           out_path == File(flat_dir, fname, "flattened")
           filled == fill_annots(template, rv)
       IN  /\ row_values' = rv
           /\ \E outcome \in RenderOutcomes :
                /\ files' = CASE outcome = "ok" -> files \cup {out_edit, out_path}
                              [] outcome = "raise_flat" -> files \cup {out_edit}
                              [] OTHER -> files
                /\ editable' = IF outcome = "raise_read" THEN editable ELSE Doc(i, filled)
                /\ flattened' = IF outcome = "ok" THEN Doc(i, flatten(filled)) ELSE flattened
                /\ pc' = IF outcome = "ok" THEN "row" ELSE "aborted"
    /\ UNCHANGED <<inputVars, i, errors, zipped>>

\* streamlit_app, lines 71-87: the files of flat_dir are packed
UploadZip ==
    /\ driver = "upload"
    /\ pc = "row"
    /\ i = Len(df)
    /\ zipped' = {f.name : f \in {g \in files : g.dir = flat_dir}}
    /\ pc' = "done"
    /\ UNCHANGED <<inputVars, i, row_values, files, editable, flattened, errors>>

Next ==
    \/ CliPopulate
    \/ CliRender
    \/ CliFinish
    \/ UploadPopulate
    \/ UploadRender
    \/ UploadZip

Spec == Init /\ [][Next]_vars

(***************************************************************************)
(* Specification SpecRender: fill_pdf on every template of at most         *)
(* MaxAnnots annotations and every small field-value map.                  *)
(***************************************************************************)
sOld == <<"o","l","d">>

RenderNames == {"change", "disabled", "surname", "no_change"}

AnnotSamples ==
    { [Subtype |-> "/Widget", T |-> n, V |-> st.V, AS |-> st.AS, AP |-> st.AP, DA |-> ""] :
        n \in RenderNames,
        st \in { [V |-> None, AS |-> "/Off", AP |-> "ap"],
                 [V |-> Str(sOld), AS |-> "/Yes", AP |-> "ap"],
                 [V |-> Str(sOld), AS |-> "/Off", AP |-> "none"] } }
    \cup { [Subtype |-> "/Link", T |-> "", V |-> None, AS |-> "/Off", AP |-> "ap", DA |-> ""],
           [Subtype |-> "/Widget", T |-> "", V |-> Str(sOld), AS |-> "/Yes", AP |-> "ap",
            DA |-> ""] }

RenderKeys == {"disabled", "surname"}
RenderValues == {<<>>, Yes, sYesLower}
ValueMaps == UNION {[ks -> RenderValues] : ks \in SUBSET RenderKeys}

InitRender ==
    /\ pc = "render"
    /\ template \in SeqsUpTo(AnnotSamples, MaxAnnots) \ {<<>>}
    /\ values_in \in ValueMaps
    /\ editable = NoDoc
    /\ flattened = NoDoc
    /\ driver = "none"
    /\ df = <<>>
    /\ i = 0
    /\ row_values = EmptyDict
    /\ files = {}
    /\ errors = {}
    /\ zipped = {}
    /\ LocateIdle
    /\ DateIdle

\* fill_pdf(template_path, output_edit_path, output_flat_path, row_values)
Render ==
    /\ pc = "render"
    /\ editable' = Doc(0, fill_annots(template, values_in))
    /\ flattened' = Doc(0, flatten(fill_annots(template, values_in)))
    /\ pc' = "rendered"
    /\ UNCHANGED <<inputVars, i, row_values, files, errors, zipped>>

NextRender == Render

SpecRender == InitRender /\ [][NextRender]_vars

(***************************************************************************)
(* Claims about fill_pdf (SpecRender).                                     *)
(***************************************************************************)
NamedWidget(a) == a.Subtype = "/Widget" /\ a.T # ""
Unmatched(a) == NamedWidget(a) /\ a.T \notin DOMAIN values_in

\* C4 (as amended): a template field whose name is not a key of the map is
\* rendered as a field whose value is the empty string: a checkbox-group field
\* is set to /Off, any other field has its value set to "" and its appearance
\* removed, and "change" is set to /Yes; the annotations that are not widgets or
\* carry no name are the ones left as in the template, and the flattened
\* output holds no annotation.
C4_UnmatchedCleared ==
    pc = "rendered" =>
        /\ Len(editable.annots) = Len(template)
        /\ flattened.annots = <<>>
        /\ \A k \in 1..Len(template) :
            LET a == template[k]
                b == editable.annots[k]
            IN  /\ ~NamedWidget(a) => b = a
                /\ Unmatched(a) =>
                       IF a.T = "change" THEN b = [a EXCEPT !.AS = "/Yes"]
                       ELSE IF a.T \in CheckboxFields THEN b = [a EXCEPT !.AS = "/Off"]
                       ELSE b = [a EXCEPT !.V = Str(<<>>), !.AP = "none"]

\* C4 (as stated): every template field whose name is not a key of the map is
\* left untouched in the editable output
C4_UnmatchedUntouched ==
    pc = "rendered" =>
        \A k \in 1..Len(template) :
            Unmatched(template[k]) => editable.annots[k] = template[k]

\* a rendered template with an unmatched text field that held a value
C4_Witness ==
    /\ pc = "rendered"
    /\ \E k \in 1..Len(template) :
         /\ Unmatched(template[k])
         /\ template[k].T = "surname"
         /\ template[k].V = Str(sOld)
         /\ editable.annots[k].V = Str(<<>>)
         /\ editable.annots[k].AP = "none"

(***************************************************************************)
(* Claims about the drivers (Spec).                                        *)
(***************************************************************************)
\* row_values is the finished field-value map of row i
Mapped == i >= 1 /\ pc # "derive"

\* C1: after a row is mapped at most one member of each checkbox group is on
C1_OneBoxPerGroup ==
    Mapped =>
        \A g \in DOMAIN CHECKBOX_GROUPS :
            ~(/\ Get(row_values, CHECKBOX_GROUPS[g][1]) = Yes
              /\ Get(row_values, CHECKBOX_GROUPS[g][2]) = Yes)

\* C2: a failure while rendering a row does not abort the batch: in both
\* drivers a run ends only after every row of the batch has been attempted
C2_EveryRowAttempted == pc \in {"done", "aborted"} => i = Len(df)

\* C3: in the document rendered from the map of row i, a checkbox-group field
\* is checked (/Yes) if and only if the map's value for it is exactly "Yes",
\* and unchecked (/Off) otherwise
C3_CheckedIffYes ==
    (Mapped /\ editable.written /\ editable.row = i) =>
        \A k \in 1..Len(editable.annots) :
            LET b == editable.annots[k]
            IN  b.T \in CheckboxFields =>
                    b.AS = IF Get(row_values, b.T) = Yes THEN "/Yes" ELSE "/Off"

\* the cell of column l of row i after str and strip, empty past the row's end
CellText(l) ==
    LET idx == Bijective26(l) - 1
    IN  IF idx >= Len(df[i]) THEN <<>> ELSE strip(str(df[i][idx + 1]))

C7_StaffIdNonEmpty ==
    Mapped =>
        /\ Get(row_values, "staff_id") # <<>>
        /\ CellText(<<"H">>) # <<>> => Get(row_values, "staff_id") = CellText(<<"H">>)
        /\ CellText(<<"H">>) = <<>> => Get(row_values, "staff_id") = unknown_id(i)

AllRendered == pc = "done" /\ errors = {}

\* i in decimal, zero-padded to the number of digits of N
PaddedId(n, N) == Zeros(Len(DecStr(N)) - Len(DecStr(n))) \o DecStr(n)

BlankRow(row) == \A k \in 1..Len(row) : row[k] = NaN

RunFields == {"staff_id", "change", "year", "declaration_date"}

\* C9: mapping an entirely blank row yields a map in which the six checkbox
\* fields are off and every optional text and date field is the empty string,
\* while staff_id and change are populated
C9_BlankRowEmpty ==
    (driver = "cli" /\ Mapped /\ BlankRow(df[i])) =>
        /\ \A f \in CheckboxFields : Get(row_values, f) = <<>>
        /\ \A key \in (DOMAIN row_values) \ RunFields : row_values[key] = <<>>
        /\ Get(row_values, "staff_id") # <<>>
        /\ Get(row_values, "change") = Yes

====
